---- MODULE Spec2Model ----
(***************************************************************************)
(* Control plane of the VPN tunnel backend: the connection lifecycle kept  *)
(* in the tables users, servers and connection_logs by the routes of       *)
(* app/api/routes_servers.py and app/api/routes_admin.py.                  *)
(*                                                                         *)
(* Each handler is modelled twice from the same building blocks:           *)
(*   - as one atomic action (a request that runs alone), and               *)
(*   - as the sequence of its database round trips (every `await`), run    *)
(*     by a request slot of `reqs`, so that requests interleave the way    *)
(*     concurrent asyncio handlers with one AsyncSession each do.          *)
(* A row loaded by a SELECT is a snapshot held by the request; the commit  *)
(* flushes, per row, the columns whose value differs from the snapshot     *)
(* (the unit of work of the ORM), with the value computed in Python.       *)
(***************************************************************************)
EXTENDS Integers, FiniteSets, Sequences, TLC

\* ---------------------------------------------------------------- bounds
MaxConns == 2      \* rows ever inserted into connection_logs
MaxTime  == 1      \* the clock runs over 0..MaxTime
MaxBytes == 1      \* a disconnect reports up to MaxBytes bytes in all
MaxTotal == 2      \* lifetime usage (up + down) is explored up to this value
MaxReqs  == 2      \* request slots of the interleaved specification
MaxStats == 2      \* rows of usage_stats the usage queries are run over
MaxLoad    == 1    \* current_load ranges over 0..MaxLoad
MaxLatency == 2    \* latency_ms is NULL or in 1..MaxLatency
MaxLimit   == 2    \* data_limit_mb is NULL or in 0..MaxLimit
MaxHalfMb  == 3    \* lifetime totals of the quota checks, in half megabytes

\* ---------------------------------------------------------------- fixture
UserIds   == {"u1", "u2"}
ServerIds == {"s1", "s2", "s3"}          \* s3 names no row
ConnIds   == 1..MaxConns
ReqIds    == 1..MaxReqs
Protocols == {"ssh_direct"}
Devices   == {"d1", "d2"}                 \* the devices clients run on
Passwords == {"p0", "p1"}                 \* p0 is the password set at creation
ByteReports == {d \in (0..MaxBytes) \X (0..MaxBytes) : d[1] + d[2] <= MaxBytes}
\* ConnectionUpdate declares both counters as plain `int`: a request body may
\* carry any integer, negative ones included
SignedByteReports ==
    {d \in (-MaxBytes..MaxBytes) \X (-MaxBytes..MaxBytes) :
        d[1] * d[2] = 0 /\ d[1] + d[2] \in -MaxBytes..MaxBytes}

FleetProtocols == {"ssh_direct", "ssl_tls"}
NoProtocol == "none"                      \* the query parameter left out

NULL     == -1                            \* NULL of an integer column
NoServer == "null"                        \* NULL of connection_logs.server_id
NoReason == "null"                        \* NULL of disconnect_reason
NoDevice == "null"                        \* NULL of users.device_id, no device_id in a request
NoEmail  == "null"                        \* NULL of users.email

\* `/ (1024 * 1024)`: the bytes of a megabyte
BytesPerMb == 1024 * 1024

\* The lifetime usage an account starts a run with: none, or one byte short
\* of a quota.  A run explores the usage up to MaxTotal bytes above it.
StartTotals == {0} \cup {limit * BytesPerMb - 1 : limit \in 1..MaxLimit}
UsageBase(total) ==
    CHOOSE b \in StartTotals :
        /\ (b <= total \/ b = 0)
        /\ \A x \in StartTotals : x <= total => x <= b

\* hash_password: the stored hash of a password, told apart from the password
Hash(password) == <<"hash", password>>
AdminReason == "Admin force disconnect"

VARIABLES
    users,            \* table users: id -> row
    servers,          \* table servers: id -> row (domain = existing rows)
    connection_logs,  \* table connection_logs: id -> row
    usage_stats,      \* table usage_stats: id -> row
    nextConnId,       \* ids are fresh: the next id to hand out
    now,              \* datetime.utcnow()
    reqs,             \* requests in flight: slot -> local state of the handler
    tokens,           \* access tokens handed out: <<account, device holding it>>
    response          \* the last response sent

vars == <<users, servers, connection_logs, usage_stats, nextConnId, now, reqs, tokens,
          response>>
db   == <<users, servers, connection_logs, usage_stats, nextConnId>>

\* ---------------------------------------------------------------- rows
NewUser(role, max_devices) ==
    [email |-> NoEmail, password_hash |-> Hash("p0"),
     device_id |-> NoDevice, max_devices |-> max_devices,
     is_active |-> TRUE, is_locked |-> FALSE, role |-> role,
     data_limit_mb |-> NULL, expiry_date |-> NULL,
     total_uploaded |-> 0, total_downloaded |-> 0,
     last_login |-> NULL, last_connection |-> NULL]

NewServer(protocol, is_premium, max_users) ==
    [protocol |-> protocol, is_active |-> TRUE, is_premium |-> is_premium,
     max_users |-> max_users, current_users |-> 0,
     current_load |-> 0, latency_ms |-> NULL]

NewConnection(u, s, p, t) ==
    [user_id |-> u, server_id |-> s, protocol |-> p,
     bytes_uploaded |-> 0, bytes_downloaded |-> 0,
     status |-> "connected", disconnect_reason |-> NoReason,
     connected_at |-> t, disconnected_at |-> NULL, duration_seconds |-> NULL]

\* a row of usage_stats
NewUsageStats(u, date, p, up, down, count, seconds) ==
    [user_id |-> u, date |-> date, protocol |-> p,
     bytes_uploaded |-> up, bytes_downloaded |-> down,
     connection_count |-> count, connection_time_seconds |-> seconds]

Resp(op, code, n) == [op |-> op, code |-> code, n |-> n]

Idle == [pc |-> "idle"]

\* ---------------------------------------------------------------- queries
\* select(func.count(ConnectionLog.id)).where(user_id == u, status == "connected")
ActiveConnections(u) ==
    Cardinality({c \in DOMAIN connection_logs :
                    /\ connection_logs[c].user_id = u
                    /\ connection_logs[c].status = "connected"})

\* select(func.count(ConnectionLog.id)).where(server_id == s, status == "connected")
ConnectedOn(s) ==
    Cardinality({c \in DOMAIN connection_logs :
                    /\ connection_logs[c].server_id = s
                    /\ connection_logs[c].status = "connected"})

\* mutant: the SELECT of disconnect_user without its user_id filter
ConnectedOf_EveryAccount(u) ==
    {c \in DOMAIN connection_logs : connection_logs[c].status = "connected"}

\* select(ConnectionLog).where(user_id == u, status == "connected")
ConnectedOf(u) ==
    {c \in DOMAIN connection_logs :
        /\ connection_logs[c].user_id = u
        /\ connection_logs[c].status = "connected"}

\* func.sum(UsageStats.<column>) over the rows `ids`: NULL when there is no row
RECURSIVE SqlSum(_, _)
SqlSum(ids, column) ==
    IF ids = {} THEN NULL
    ELSE LET i == CHOOSE i \in ids : TRUE
             rest == SqlSum(ids \ {i}, column)
         IN  usage_stats[i][column] + (IF rest = NULL THEN 0 ELSE rest)

\* `row[k] or 0`
OrZero(x) == IF x = NULL THEN 0 ELSE x

\* ---------------------------------------------------------------- connect_to_server
\* `not server or not server.is_active`
ServerUnavailable(s) ==
    \/ s \notin DOMAIN servers
    \/ ~servers[s].is_active

\* mutant: the device limit compared with > instead of >=
DeviceLimitReached_OffByOne(active_connections, max_devices) ==
    active_connections > max_devices

\* `active_connections >= current_user.max_devices`
DeviceLimitReached(active_connections, max_devices) ==
    active_connections >= max_devices

\* mutant: the UPDATE of the counter without its WHERE clause
ConnectCommit_EveryServer(u, s, p, loaded_users, t) ==
    /\ nextConnId <= MaxConns
    /\ connection_logs' = connection_logs @@ (nextConnId :> NewConnection(u, s, p, t))
    /\ nextConnId' = nextConnId + 1
    /\ servers' = [x \in DOMAIN servers |->
                     [servers[x] EXCEPT !.current_users =
                         IF x = s THEN loaded_users + 1 ELSE @ + 1]]
    /\ users' = [users EXCEPT ![u].last_connection = t]
    /\ response' = Resp("connect", 200, 0)
    /\ UNCHANGED usage_stats

\* the flush of connect_to_server: INSERT the connection, UPDATE the server
\* row with the value computed from the loaded row, UPDATE the user.
ConnectCommit(u, s, p, loaded_users, t) ==
    /\ nextConnId <= MaxConns
    /\ connection_logs' = connection_logs @@ (nextConnId :> NewConnection(u, s, p, t))
    /\ nextConnId' = nextConnId + 1
    /\ servers' = [servers EXCEPT ![s].current_users = loaded_users + 1]
    /\ users' = [users EXCEPT ![u].last_connection = t]
    /\ response' = Resp("connect", 200, 0)
    /\ UNCHANGED usage_stats

\* mutant: the account's last_connection is written before the device check
connect_to_server_TouchFirst(u, s, p) ==
    /\ \E t \in now..MaxTime :
        /\ now' = t
        /\ IF ServerUnavailable(s)
           THEN /\ response' = Resp("connect", 404, 0)
                /\ UNCHANGED db
           ELSE IF DeviceLimitReached(ActiveConnections(u), users[u].max_devices)
           THEN /\ response' = Resp("connect", 403, 0)
                /\ users' = [users EXCEPT ![u].last_connection = t]
                /\ UNCHANGED <<servers, connection_logs, usage_stats, nextConnId>>
           ELSE ConnectCommit(u, s, p, servers[s].current_users, t)
    /\ UNCHANGED <<reqs, tokens>>

\* mutant: the device limit is checked before the server
connect_to_server_LimitFirst(u, s, p) ==
    /\ \E t \in now..MaxTime :
        /\ now' = t
        /\ IF DeviceLimitReached(ActiveConnections(u), users[u].max_devices)
           THEN /\ response' = Resp("connect", 403, 0)
                /\ UNCHANGED db
           ELSE IF ServerUnavailable(s)
           THEN /\ response' = Resp("connect", 404, 0)
                /\ UNCHANGED db
           ELSE ConnectCommit(u, s, p, servers[s].current_users, t)
    /\ UNCHANGED <<reqs, tokens>>

connect_to_server(u, s, p) ==
    /\ \E t \in now..MaxTime :
        /\ now' = t
        /\ IF ServerUnavailable(s)
           THEN /\ response' = Resp("connect", 404, 0)
                /\ UNCHANGED db
           ELSE IF DeviceLimitReached(ActiveConnections(u), users[u].max_devices)
           THEN /\ response' = Resp("connect", 403, 0)
                /\ UNCHANGED db
           ELSE ConnectCommit(u, s, p, servers[s].current_users, t)
    /\ UNCHANGED <<reqs, tokens>>

\* ---------------------------------------------------------------- unit of work
\* What a commit writes of one row: the columns whose value the handler
\* changed from the loaded value; every other column keeps the stored value.
Flush(stored, loaded, new) ==
    [f \in DOMAIN stored |-> IF new[f] = loaded[f] THEN stored[f] ELSE new[f]]

\* ---------------------------------------------------------------- disconnect
\* mutant: the SELECT of disconnect without its user_id filter
ConnectionFound_AnyAccount(u, c) ==
    c \in DOMAIN connection_logs

\* select(ConnectionLog).where(id == connection_id, user_id == current_user.id)
ConnectionFound(u, c) ==
    /\ c \in DOMAIN connection_logs
    /\ connection_logs[c].user_id = u

\* mutant: the status taken from the request body, whose ConnectionUpdate.status
\* defaults to "connected"
DisconnectedRow_StatusFromRequest(conn, up, down, t) ==
    [conn EXCEPT !.bytes_uploaded = up,
                 !.bytes_downloaded = down,
                 !.status = "connected",
                 !.disconnected_at = t,
                 !.duration_seconds = t - conn.connected_at]

\* "Update connection": the assignments to the loaded connection
DisconnectedRow(conn, up, down, t) ==
    [conn EXCEPT !.bytes_uploaded = up,
                 !.bytes_downloaded = down,
                 !.status = "disconnected",
                 !.disconnected_at = t,
                 !.duration_seconds = t - conn.connected_at]

\* "Update user stats": the assignments to current_user
UsageAdded(user, up, down) ==
    [user EXCEPT !.total_uploaded = @ + up,
                 !.total_downloaded = @ + down]

\* `if connection.server_id:` then the SELECT of the server; the loaded
\* current_users, or NULL when there is no server to load
LoadedServerUsers(conn) ==
    IF conn.server_id # NoServer /\ conn.server_id \in DOMAIN servers
    THEN servers[conn.server_id].current_users
    ELSE NULL

\* mutant: the decrement without its `current_users > 0` guard
ServersAfterDisconnect_Unfloored(conn, loaded_users) ==
    IF loaded_users # NULL /\ conn.server_id \in DOMAIN servers
    THEN [servers EXCEPT ![conn.server_id].current_users = loaded_users - 1]
    ELSE servers

\* `if server and server.current_users > 0: server.current_users -= 1`
ServersAfterDisconnect(conn, loaded_users) ==
    IF loaded_users # NULL /\ loaded_users > 0 /\ conn.server_id \in DOMAIN servers
    THEN [servers EXCEPT ![conn.server_id].current_users = loaded_users - 1]
    ELSE servers

\* the flush of disconnect
DisconnectCommit(u, c, up, down, conn, user, loaded_users, t) ==
    /\ user.total_uploaded + user.total_downloaded + up + down
          <= UsageBase(user.total_uploaded + user.total_downloaded) + MaxTotal
    /\ connection_logs' = [connection_logs EXCEPT
                             ![c] = Flush(@, conn, DisconnectedRow(conn, up, down, t))]
    /\ users' = [users EXCEPT ![u] = Flush(@, user, UsageAdded(user, up, down))]
    /\ servers' = ServersAfterDisconnect(conn, loaded_users)
    /\ response' = Resp("disconnect", 200, 0)
    /\ UNCHANGED <<nextConnId, usage_stats>>

\* mutant: the finalize refuses the report that takes the account over its quota
disconnect_QuotaChecked(u, c, up, down) ==
    /\ \E t \in now..MaxTime :
        /\ now' = t
        /\ IF ~ConnectionFound(u, c)
           THEN /\ response' = Resp("disconnect", 404, 0)
                /\ UNCHANGED db
           ELSE IF /\ users[u].data_limit_mb # NULL
                   /\ users[u].total_uploaded + users[u].total_downloaded + up + down
                         > users[u].data_limit_mb * BytesPerMb
           THEN /\ response' = Resp("disconnect", 403, 0)
                /\ UNCHANGED db
           ELSE DisconnectCommit(u, c, up, down, connection_logs[c], users[u],
                                 LoadedServerUsers(connection_logs[c]), t)
    /\ UNCHANGED <<reqs, tokens>>

disconnect(u, c, up, down) ==
    /\ \E t \in now..MaxTime :
        /\ now' = t
        /\ IF ~ConnectionFound(u, c)
           THEN /\ response' = Resp("disconnect", 404, 0)
                /\ UNCHANGED db
           ELSE DisconnectCommit(u, c, up, down, connection_logs[c], users[u],
                                 LoadedServerUsers(connection_logs[c]), t)
    /\ UNCHANGED <<reqs, tokens>>

\* ---------------------------------------------------------------- store failure
\* `await db.commit()` raises: the one transaction of the request, which holds
\* every write of the handler, is rolled back and the error is surfaced
StoreFailure(op) ==
    /\ response' = Resp(op, 500, 0)
    /\ UNCHANGED db

\* mutant: the session row is committed on its own, before the commit of the
\* counter and of the account fails
connect_with_store_CommitsTwice(u, s, p, commit_ok) ==
    IF \/ commit_ok
       \/ ServerUnavailable(s)
       \/ DeviceLimitReached(ActiveConnections(u), users[u].max_devices)
    THEN connect_to_server(u, s, p)
    ELSE /\ \E t \in now..MaxTime :
             /\ now' = t
             /\ nextConnId <= MaxConns
             /\ connection_logs' = connection_logs @@ (nextConnId :> NewConnection(u, s, p, t))
             /\ nextConnId' = nextConnId + 1
             /\ response' = Resp("connect", 500, 0)
             /\ UNCHANGED <<users, servers, usage_stats>>
         /\ UNCHANGED <<reqs, tokens>>

\* connect_to_server with the outcome of its commit: the handler ends in the
\* single `await db.commit()` that follows all its writes
connect_with_store(u, s, p, commit_ok) ==
    IF \/ commit_ok
       \/ ServerUnavailable(s)
       \/ DeviceLimitReached(ActiveConnections(u), users[u].max_devices)
    THEN connect_to_server(u, s, p)
    ELSE /\ \E t \in now..MaxTime :
             /\ now' = t
             /\ StoreFailure("connect")
         /\ UNCHANGED <<reqs, tokens>>

\* disconnect with the outcome of its commit
disconnect_with_store(u, c, up, down, commit_ok) ==
    IF commit_ok \/ ~ConnectionFound(u, c)
    THEN disconnect(u, c, up, down)
    ELSE /\ \E t \in now..MaxTime :
             /\ now' = t
             /\ StoreFailure("disconnect")
         /\ UNCHANGED <<reqs, tokens>>

\* ---------------------------------------------------------------- disconnect_user
\* the loop body over the loaded connections
ForceDisconnectedRow(conn, t) ==
    [conn EXCEPT !.status = "disconnected",
                 !.disconnected_at = t,
                 !.disconnect_reason = AdminReason,
                 !.duration_seconds = t - conn.connected_at]

\* the flush of disconnect_user; `loaded` maps the selected ids to their rows
ForceCommit(u, loaded, t) ==
    /\ connection_logs' =
          [c \in DOMAIN connection_logs |->
              IF c \in DOMAIN loaded
              THEN Flush(connection_logs[c], loaded[c], ForceDisconnectedRow(loaded[c], t))
              ELSE connection_logs[c]]
    /\ response' = Resp("disconnect_user", 200, Cardinality(DOMAIN loaded))
    /\ UNCHANGED <<users, servers, nextConnId, usage_stats>>

disconnect_user(u) ==
    /\ \E t \in now..MaxTime :
        /\ now' = t
        /\ ForceCommit(u, [c \in ConnectedOf(u) |-> connection_logs[c]], t)
    /\ UNCHANGED <<reqs, tokens>>

\* ---------------------------------------------------------------- login
\* verify_password(password, password_hash)
VerifyPassword(password, password_hash) == Hash(password) = password_hash

\* mutant: the device check without the leniency for a request that
\* presents no device_id
LockedToAnotherDevice_Strict(user, device_id) ==
    /\ user.is_locked
    /\ user.device_id # NoDevice
    /\ user.device_id # device_id

\* `user.is_locked`, then `user.device_id and user_data.device_id`, then
\* `user.device_id != user_data.device_id`
LockedToAnotherDevice(user, device_id) ==
    /\ user.is_locked
    /\ user.device_id # NoDevice /\ device_id # NoDevice
    /\ user.device_id # device_id

\* mutant: the device binding is written before the device check
login_BindFirst(u, password, from, device_id) ==
    /\ \E t \in now..MaxTime :
        /\ now' = t
        /\ IF ~VerifyPassword(password, users[u].password_hash)
           THEN /\ response' = Resp("login", 401, 0)
                /\ UNCHANGED <<users, tokens>>
           ELSE IF ~users[u].is_active
           THEN /\ response' = Resp("login", 403, 0)
                /\ UNCHANGED <<users, tokens>>
           ELSE /\ users' = [users EXCEPT
                               ![u].device_id = IF device_id # NoDevice THEN device_id ELSE @,
                               ![u].last_login = t]
                /\ IF LockedToAnotherDevice(users[u], device_id)
                   THEN /\ response' = Resp("login", 403, 0)
                        /\ UNCHANGED tokens
                   ELSE /\ tokens' = tokens \cup {<<u, from>>}
                        /\ response' = Resp("login", 200, 0)
    /\ UNCHANGED <<servers, connection_logs, usage_stats, nextConnId, reqs>>

\* POST /auth/login by a client that runs on device `from` and presents
\* `device_id` (its own id, or none); the tokens of the response are held by
\* that client
login(u, password, from, device_id) ==
    /\ \E t \in now..MaxTime :
        /\ now' = t
        /\ IF ~VerifyPassword(password, users[u].password_hash)
           THEN /\ response' = Resp("login", 401, 0)
                /\ UNCHANGED <<users, tokens>>
           ELSE IF ~users[u].is_active
           THEN /\ response' = Resp("login", 403, 0)
                /\ UNCHANGED <<users, tokens>>
           ELSE IF LockedToAnotherDevice(users[u], device_id)
           THEN /\ response' = Resp("login", 403, 0)
                /\ UNCHANGED <<users, tokens>>
           ELSE /\ users' = [users EXCEPT
                               ![u].device_id = IF device_id # NoDevice THEN device_id ELSE @,
                               ![u].last_login = t]
                /\ tokens' = tokens \cup {<<u, from>>}
                /\ response' = Resp("login", 200, 0)
    /\ UNCHANGED <<servers, connection_logs, usage_stats, nextConnId, reqs>>

\* Depends(get_current_user): the request carries a token issued for account
\* u; the token names the account only, so connect_to_server runs the same
\* for every device that holds one
connect_from(u, from, s, p) ==
    /\ <<u, from>> \in tokens
    /\ connect_to_server(u, s, p)

\* ---------------------------------------------------------------- lock and unlock
lock_user_device(u) ==
    /\ IF u \notin DOMAIN users
       THEN /\ response' = Resp("lock", 404, 0)
            /\ UNCHANGED users
       ELSE /\ users' = [users EXCEPT ![u].is_locked = TRUE]
            /\ response' = Resp("lock", 200, 0)
    /\ UNCHANGED <<servers, connection_logs, usage_stats, nextConnId, now, reqs, tokens>>

unlock_user_device(u) ==
    /\ IF u \notin DOMAIN users
       THEN /\ response' = Resp("unlock", 404, 0)
            /\ UNCHANGED users
       ELSE /\ users' = [users EXCEPT ![u].is_locked = FALSE,
                                      ![u].device_id = NoDevice]
            /\ response' = Resp("unlock", 200, 0)
    /\ UNCHANGED <<servers, connection_logs, usage_stats, nextConnId, now, reqs, tokens>>

\* `for key, value in update_data.items(): setattr(row, key, value)`
SetAttrs(row, update_data) ==
    [f \in DOMAIN row \cup DOMAIN update_data |->
        IF f \in DOMAIN update_data THEN update_data[f] ELSE row[f]]

\* ---------------------------------------------------------------- update_user, update_profile
\* the fields of UserUpdate
UserUpdateFields ==
    {"email", "password", "is_active", "is_locked", "role", "max_devices",
     "data_limit_mb", "expiry_date"}

\* mutant: the request body taken as it comes
ParseUserUpdate_KeepsAll(raw) == raw

\* UserUpdate(**body).model_dump(exclude_unset=True): the fields of the body
\* that the schema declares; any other key of the body is dropped
ParseUserUpdate(raw) ==
    [f \in DOMAIN raw \cap UserUpdateFields |-> raw[f]]

\* `update_data["password_hash"] = hash_password(update_data.pop("password"))`
WithPasswordHash(update_data) ==
    IF "password" \in DOMAIN update_data
    THEN [f \in (DOMAIN update_data \ {"password"}) \cup {"password_hash"} |->
             IF f = "password_hash" THEN Hash(update_data.password) ELSE update_data[f]]
    ELSE update_data

update_user(u, raw) ==
    /\ IF u \notin DOMAIN users
       THEN /\ response' = Resp("update_user", 404, 0)
            /\ UNCHANGED users
       ELSE /\ users' = [users EXCEPT
                           ![u] = SetAttrs(@, WithPasswordHash(ParseUserUpdate(raw)))]
            /\ response' = Resp("update_user", 200, 0)
    /\ UNCHANGED <<servers, connection_logs, usage_stats, nextConnId, now, reqs, tokens>>

\* mutant: every field of the body is applied
AllowedProfileFields_All == UserUpdateFields

\* `allowed_fields = ["email", "password"]`
AllowedProfileFields == {"email", "password"}

update_profile(u, raw) ==
    /\ LET update_data == [f \in DOMAIN ParseUserUpdate(raw) \cap AllowedProfileFields |->
                              raw[f]]
       IN  users' = [users EXCEPT ![u] = SetAttrs(@, WithPasswordHash(update_data))]
    /\ response' = Resp("update_profile", 200, 0)
    /\ UNCHANGED <<servers, connection_logs, usage_stats, nextConnId, now, reqs, tokens>>

\* ---------------------------------------------------------------- update_server
\* the fields of ServerUpdate among the modelled columns
ServerUpdateFields == {"protocol", "is_active", "is_premium", "max_users"}

\* mutant: the request body taken as it comes
ParseServerUpdate_KeepsAll(raw) == raw

\* ServerUpdate(**body).model_dump(exclude_unset=True): the fields of the body
\* that the schema declares; any other key of the body is dropped
ParseServerUpdate(raw) ==
    [f \in DOMAIN raw \cap ServerUpdateFields |-> raw[f]]

\* mutant: taking a server out of service closes the sessions open on it
update_server_ClosingSessions(s, raw) ==
    /\ IF s \notin DOMAIN servers
       THEN /\ response' = Resp("update_server", 404, 0)
            /\ UNCHANGED <<servers, connection_logs>>
       ELSE /\ servers' = [servers EXCEPT ![s] = SetAttrs(@, ParseServerUpdate(raw))]
            /\ connection_logs' =
                  [c \in DOMAIN connection_logs |->
                      IF connection_logs[c].server_id = s /\ ~servers'[s].is_active
                      THEN [connection_logs[c] EXCEPT !.status = "disconnected"]
                      ELSE connection_logs[c]]
            /\ response' = Resp("update_server", 200, 0)
    /\ UNCHANGED <<users, usage_stats, nextConnId, now, reqs, tokens>>

update_server(s, raw) ==
    /\ IF s \notin DOMAIN servers
       THEN /\ response' = Resp("update_server", 404, 0)
            /\ UNCHANGED servers
       ELSE /\ servers' = [servers EXCEPT ![s] = SetAttrs(@, ParseServerUpdate(raw))]
            /\ response' = Resp("update_server", 200, 0)
    /\ UNCHANGED <<users, connection_logs, usage_stats, nextConnId, now, reqs, tokens>>

\* ---------------------------------------------------------------- delete_user
\* User.connections and User.usage_stats are cascade="all, delete-orphan"
\* (and their user_id is ondelete="CASCADE"): the rows of the account go with it
RowsOfOthers(table, u) ==
    [i \in {x \in DOMAIN table : table[x].user_id # u} |-> table[i]]

delete_user(u) ==
    /\ IF u \notin DOMAIN users
       THEN /\ response' = Resp("delete_user", 404, 0)
            /\ UNCHANGED <<users, connection_logs, usage_stats>>
       ELSE IF users[u].role = "admin"
       THEN /\ response' = Resp("delete_user", 400, 0)
            /\ UNCHANGED <<users, connection_logs, usage_stats>>
       ELSE /\ users' = [v \in DOMAIN users \ {u} |-> users[v]]
            /\ connection_logs' = RowsOfOthers(connection_logs, u)
            /\ usage_stats' = RowsOfOthers(usage_stats, u)
            /\ response' = Resp("delete_user", 200, 0)
    /\ UNCHANGED <<servers, nextConnId, now, reqs, tokens>>

\* ---------------------------------------------------------------- delete_server
\* mutant: connection_logs.server_id declared ondelete="CASCADE"
SessionsAfterServerDelete_Cascade(s) ==
    [c \in {x \in DOMAIN connection_logs : connection_logs[x].server_id # s} |->
        connection_logs[c]]

\* connection_logs.server_id is ForeignKey("servers.id", ondelete="SET NULL")
\* and Server.connections has no delete cascade: the rows that reference the
\* deleted server stay, with server_id NULL
SessionsAfterServerDelete(s) ==
    [c \in DOMAIN connection_logs |->
        IF connection_logs[c].server_id = s
        THEN [connection_logs[c] EXCEPT !.server_id = NoServer]
        ELSE connection_logs[c]]

delete_server(s) ==
    /\ IF s \notin DOMAIN servers
       THEN /\ response' = Resp("delete_server", 404, 0)
            /\ UNCHANGED <<servers, connection_logs>>
       ELSE /\ servers' = [x \in DOMAIN servers \ {s} |-> servers[x]]
            /\ connection_logs' = SessionsAfterServerDelete(s)
            /\ response' = Resp("delete_server", 200, 0)
    /\ UNCHANGED <<users, usage_stats, nextConnId, now, reqs, tokens>>

\* ---------------------------------------------------------------- get_best_server
\* mutant: the capacity filter compared with <= instead of <
Eligible_FullServers(s, role, protocol) ==
    /\ servers[s].is_active
    /\ servers[s].current_users <= servers[s].max_users
    /\ (role \notin {"admin", "premium"} => ~servers[s].is_premium)
    /\ (protocol # NoProtocol => servers[s].protocol = protocol)

\* the WHERE clauses of the query
Eligible(s, role, protocol) ==
    /\ servers[s].is_active
    /\ servers[s].current_users < servers[s].max_users
    /\ (role \notin {"admin", "premium"} => ~servers[s].is_premium)
    /\ (protocol # NoProtocol => servers[s].protocol = protocol)

\* mutant: ORDER BY current_load alone
SortsBefore_LoadOnly(a, b) ==
    a.current_load < b.current_load

\* ORDER BY current_load, latency_ms: ascending, and PostgreSQL sorts NULL
\* last in ascending order; TRUE when row a must come before row b
SortsBefore(a, b) ==
    \/ a.current_load < b.current_load
    \/ /\ a.current_load = b.current_load
       /\ a.latency_ms # NULL
       /\ (b.latency_ms = NULL \/ a.latency_ms < b.latency_ms)

\* the rows that `.limit(1)` may return: those that no other row of the
\* result must precede (rows equal in both sort keys come in any order)
FirstRows(role, protocol) ==
    {s \in DOMAIN servers :
        /\ Eligible(s, role, protocol)
        /\ ~\E x \in DOMAIN servers :
              /\ Eligible(x, role, protocol)
              /\ SortsBefore(servers[x], servers[s])}

BestResp(u, protocol, code, s) ==
    [op |-> "best", user |-> u, protocol |-> protocol, code |-> code, server |-> s]

\* mutant: the selection reserves a slot on the server it returns
get_best_server_Reserving(u, protocol) ==
    /\ LET first == FirstRows(users[u].role, protocol)
       IN  IF first = {}
           THEN /\ response' = BestResp(u, protocol, 404, NoServer)
                /\ UNCHANGED servers
           ELSE \E s \in first :
                   /\ response' = BestResp(u, protocol, 200, s)
                   /\ servers' = [servers EXCEPT ![s].current_users = @ + 1]
    /\ UNCHANGED <<users, connection_logs, usage_stats, nextConnId, now, reqs, tokens>>

get_best_server(u, protocol) ==
    /\ LET first == FirstRows(users[u].role, protocol)
       IN  IF first = {}
           THEN response' = BestResp(u, protocol, 404, NoServer)
           ELSE \E s \in first : response' = BestResp(u, protocol, 200, s)
    /\ UNCHANGED <<db, now, reqs, tokens>>

\* ---------------------------------------------------------------- get_data_remaining
Max(a, b) == IF a >= b THEN a ELSE b

\* A quantity in megabytes is a float in the handler; it is kept here as the
\* exact number of bytes, i.e. multiplied by BytesPerMb.
\* `(total_uploaded + total_downloaded) / (1024 * 1024)`, times BytesPerMb
UsedBytes(user) == user.total_uploaded + user.total_downloaded

\* `max(0, data_limit_mb - used_mb)`, times BytesPerMb
RemainingBytes(user) ==
    Max(0, user.data_limit_mb * BytesPerMb - UsedBytes(user))

\* `not current_user.data_limit_mb`: None and 0 are both falsy
NoLimit(user) == user.data_limit_mb = NULL \/ user.data_limit_mb = 0

get_data_remaining(u) ==
    /\ IF NoLimit(users[u])
       THEN response' = [op |-> "data_remaining", user |-> u, has_limit |-> FALSE,
                         limit_mb |-> NULL, used |-> UsedBytes(users[u]),
                         remaining |-> NULL]
       ELSE response' = [op |-> "data_remaining", user |-> u, has_limit |-> TRUE,
                         limit_mb |-> users[u].data_limit_mb,
                         used |-> UsedBytes(users[u]),
                         remaining |-> RemainingBytes(users[u]),
                         \* (used_mb / limit) * 100 as numerator and denominator
                         percentage_used |-> <<UsedBytes(users[u]) * 100,
                                               users[u].data_limit_mb * BytesPerMb>>]
    /\ UNCHANGED <<db, now, reqs, tokens>>

\* ---------------------------------------------------------------- get_connection_info
\* the response: the credentials embedded in the row of server s, or none
InfoResp(u, s, code, credentials) ==
    [op |-> "connection_info", user |-> u, server |-> s, code |-> code,
     credentials |-> credentials]

\* "Check data limit": `if current_user.data_limit_mb:` and then
\* `used_mb >= current_user.data_limit_mb`
DataLimitExceeded(user) ==
    /\ ~NoLimit(user)
    /\ UsedBytes(user) >= user.data_limit_mb * BytesPerMb

get_connection_info(u, s) ==
    /\ IF s \notin DOMAIN servers \/ ~servers[s].is_active
       THEN response' = InfoResp(u, s, 404, NoServer)
       ELSE IF servers[s].is_premium /\ users[u].role \notin {"admin", "premium"}
       THEN response' = InfoResp(u, s, 403, NoServer)
       ELSE IF DataLimitExceeded(users[u])
       THEN response' = InfoResp(u, s, 403, NoServer)
       ELSE response' = InfoResp(u, s, 200, s)
    /\ UNCHANGED <<db, now, reqs, tokens>>

\* ---------------------------------------------------------------- usage queries
\* `date.today() - timedelta(days=days)`; dates are day numbers and the clock
\* `now` is read as today's day number
StartDate(days) == now - days

\* the WHERE clause of get_usage_summary
SummaryRows(u, start_date) ==
    {i \in DOMAIN usage_stats :
        /\ usage_stats[i].user_id = u
        /\ usage_stats[i].date >= start_date}

\* mutant: the WHERE clause of get_daily_usage without its date condition
DailyRows_AllDates(u, start_date) ==
    {i \in DOMAIN usage_stats : usage_stats[i].user_id = u}

\* the WHERE clause of get_daily_usage
DailyRows(u, start_date) ==
    {i \in DOMAIN usage_stats :
        /\ usage_stats[i].user_id = u
        /\ usage_stats[i].date >= start_date}

\* `.order_by(desc(UsageStats.date))`: every order of the rows the clause
\* allows (rows of one date come in any order)
OrderedByDateDesc(ids) ==
    {q \in [1..Cardinality(ids) -> ids] :
        /\ \A i, j \in DOMAIN q : i # j => q[i] # q[j]
        /\ \A i, j \in DOMAIN q : i < j => usage_stats[q[i]].date >= usage_stats[q[j]].date}

get_usage_summary(u, days) ==
    /\ LET rows == SummaryRows(u, StartDate(days))
       IN  response' = [op |-> "usage", user |-> u, days |-> days,
                        total_uploaded |-> OrZero(SqlSum(rows, "bytes_uploaded")),
                        total_downloaded |-> OrZero(SqlSum(rows, "bytes_downloaded")),
                        total_connections |-> OrZero(SqlSum(rows, "connection_count")),
                        total_time_seconds |-> OrZero(SqlSum(rows, "connection_time_seconds"))]
    /\ UNCHANGED <<db, now, reqs, tokens>>

get_daily_usage(u, days) ==
    /\ \E q \in OrderedByDateDesc(DailyRows(u, StartDate(days))) :
          response' = [op |-> "usage_daily", user |-> u, days |-> days,
                       rows |-> [i \in DOMAIN q |-> usage_stats[q[i]]]]
    /\ UNCHANGED <<db, now, reqs, tokens>>

\* ---------------------------------------------------------------- interleaved handlers
\* One action per database round trip of a handler; reqs[r] holds what the
\* handler has loaded so far.

\* connect_to_server up to its first await: the SELECT of the server
ConnectSelectServer(r, u, s, p) ==
    /\ reqs[r].pc = "idle"
    /\ IF ServerUnavailable(s)
       THEN /\ response' = Resp("connect", 404, 0)
            /\ UNCHANGED <<reqs, tokens>>
       ELSE /\ reqs' = [reqs EXCEPT ![r] =
                          [pc |-> "connect_count", user |-> u, server |-> s, protocol |-> p,
                           loaded_users |-> servers[s].current_users,
                           max_devices |-> users[u].max_devices]]
            /\ UNCHANGED response
    /\ UNCHANGED <<db, now, tokens>>

\* the count of the account's connected sessions and the check on it
ConnectCountActive(r) ==
    /\ reqs[r].pc = "connect_count"
    /\ IF DeviceLimitReached(ActiveConnections(reqs[r].user), reqs[r].max_devices)
       THEN /\ response' = Resp("connect", 403, 0)
            /\ reqs' = [reqs EXCEPT ![r] = Idle]
       ELSE /\ reqs' = [reqs EXCEPT ![r].pc = "connect_commit"]
            /\ UNCHANGED response
    /\ UNCHANGED <<db, now, tokens>>

\* db.commit() of connect_to_server
ConnectFlush(r) ==
    /\ reqs[r].pc = "connect_commit"
    /\ \E t \in now..MaxTime :
        /\ now' = t
        /\ ConnectCommit(reqs[r].user, reqs[r].server, reqs[r].protocol,
                         reqs[r].loaded_users, t)
    /\ reqs' = [reqs EXCEPT ![r] = Idle]
    /\ UNCHANGED tokens

\* disconnect up to its first await: the SELECT of the connection
DisconnectSelectConnection(r, u, c, up, down) ==
    /\ reqs[r].pc = "idle"
    /\ IF ~ConnectionFound(u, c)
       THEN /\ response' = Resp("disconnect", 404, 0)
            /\ UNCHANGED <<reqs, tokens>>
       ELSE /\ reqs' = [reqs EXCEPT ![r] =
                          [pc |-> "disconnect_server", user |-> u, conn_id |-> c,
                           up |-> up, down |-> down,
                           conn |-> connection_logs[c], loaded_user |-> users[u]]]
            /\ UNCHANGED response
    /\ UNCHANGED <<db, now, tokens>>

\* the SELECT of the connection's server
DisconnectSelectServer(r) ==
    /\ reqs[r].pc = "disconnect_server"
    /\ reqs' = [reqs EXCEPT ![r] =
                  [pc |-> "disconnect_commit", user |-> reqs[r].user,
                   conn_id |-> reqs[r].conn_id, up |-> reqs[r].up, down |-> reqs[r].down,
                   conn |-> reqs[r].conn, loaded_user |-> reqs[r].loaded_user,
                   loaded_users |-> LoadedServerUsers(reqs[r].conn)]]
    /\ UNCHANGED <<db, now, tokens, response>>

\* db.commit() of disconnect
DisconnectFlush(r) ==
    /\ reqs[r].pc = "disconnect_commit"
    /\ reqs[r].conn_id \in DOMAIN connection_logs
    /\ \E t \in now..MaxTime :
        /\ now' = t
        /\ DisconnectCommit(reqs[r].user, reqs[r].conn_id, reqs[r].up, reqs[r].down,
                            reqs[r].conn, reqs[r].loaded_user, reqs[r].loaded_users, t)
    /\ reqs' = [reqs EXCEPT ![r] = Idle]
    /\ UNCHANGED tokens

\* disconnect_user up to its await: the SELECT of the connected sessions
ForceSelectConnections(r, u) ==
    /\ reqs[r].pc = "idle"
    /\ reqs' = [reqs EXCEPT ![r] =
                  [pc |-> "force_commit", user |-> u,
                   loaded |-> [c \in ConnectedOf(u) |-> connection_logs[c]]]]
    /\ UNCHANGED <<db, now, tokens, response>>

\* db.commit() of disconnect_user
ForceFlush(r) ==
    /\ reqs[r].pc = "force_commit"
    /\ \E t \in now..MaxTime :
        /\ now' = t
        /\ ForceCommit(reqs[r].user, reqs[r].loaded, t)
    /\ reqs' = [reqs EXCEPT ![r] = Idle]
    /\ UNCHANGED tokens

\* ---------------------------------------------------------------- specifications
\* The database after the administrator has created two accounts
\* (create_user: role "user" with the default max_devices 1, role "premium"
\* with max_devices 2) and two servers (create_server: a free one with
\* max_users 1, a premium one with max_users 2); no session yet.
Init ==
    /\ users = [u \in UserIds |->
                  IF u = "u1" THEN NewUser("user", 1) ELSE NewUser("premium", 2)]
    /\ servers = [s \in {"s1", "s2"} |->
                  IF s = "s1" THEN NewServer("ssh_direct", FALSE, 1)
                                ELSE NewServer("ssh_direct", TRUE, 2)]
    /\ connection_logs = <<>>
    /\ usage_stats = <<>>
    /\ nextConnId = 1
    /\ now = 0
    /\ reqs = [r \in ReqIds |-> Idle]
    /\ tokens = {}
    /\ response = Resp("none", 0, 0)

NextSessions ==
    \/ \E u \in UserIds, s \in ServerIds, p \in Protocols : connect_to_server(u, s, p)

    \/ \E u \in UserIds, c \in ConnIds, d \in ByteReports :
          disconnect(u, c, d[1], d[2])

SpecSessions == Init /\ [][NextSessions]_vars

NextAdmin ==
    \/ NextSessions
    \/ \E u \in UserIds : disconnect_user(u)

SpecAdmin == Init /\ [][NextAdmin]_vars

\* No handler of the application writes usage_stats: its rows are given.
\* The usage queries are run over every table of up to MaxStats rows, each
\* with all its columns set, that the table definition admits (primary key
\* id, no other constraint), on the day after the last date a row can carry.
UsageDates == 0..MaxTime
UsageDays  == 1..(MaxTime + 1)

UsageRows ==
    {NewUsageStats(u, date, p, d[1], d[2], count, seconds) :
        u \in UserIds, date \in UsageDates, p \in Protocols,
        d \in ByteReports, count \in 1..MaxConns, seconds \in 0..MaxTime}

InitUsage ==
    /\ users = [u \in UserIds |->
                  IF u = "u1" THEN NewUser("user", 1) ELSE NewUser("premium", 2)]
    /\ servers = [s \in {"s1", "s2"} |->
                  IF s = "s1" THEN NewServer("ssh_direct", FALSE, 1)
                                ELSE NewServer("ssh_direct", TRUE, 2)]
    /\ connection_logs = <<>>
    /\ \E k \in 0..MaxStats : usage_stats \in [1..k -> UsageRows]
    /\ nextConnId = 1
    /\ now = MaxTime + 1
    /\ reqs = [r \in ReqIds |-> Idle]
    /\ tokens = {}
    /\ response = Resp("none", 0, 0)

NextUsage ==
    \/ \E u \in UserIds, days \in UsageDays : get_usage_summary(u, days)
    \/ \E u \in UserIds, days \in UsageDays : get_daily_usage(u, days)

SpecUsage == InitUsage /\ [][NextUsage]_vars

\* get_best_server is run over every fleet of two servers: protocol,
\* is_premium and max_users as create_server stores them, is_active as
\* update_server sets it, current_users as the sessions leave it (one slot
\* free or full), and the load and latency columns, which no handler of the
\* application writes, at their defaults (0, NULL) or any measured value.
FleetRows ==
    [protocol : FleetProtocols, is_active : BOOLEAN, is_premium : BOOLEAN,
     max_users : {MaxConns}, current_users : {MaxConns - 1, MaxConns},
     current_load : 0..MaxLoad, latency_ms : {NULL} \cup (1..MaxLatency)]

InitFleet ==
    /\ \E role \in {"premium", "admin"} :
          users = [u \in UserIds |->
                     IF u = "u1" THEN NewUser("user", 1) ELSE NewUser(role, 2)]
    /\ servers \in [{"s1", "s2"} -> FleetRows]
    /\ connection_logs = <<>>
    /\ usage_stats = <<>>
    /\ nextConnId = 1
    /\ now = 0
    /\ reqs = [r \in ReqIds |-> Idle]
    /\ tokens = {}
    /\ response = Resp("none", 0, 0)

NextBest ==
    \E u \in UserIds, p \in FleetProtocols \cup {NoProtocol} : get_best_server(u, p)

SpecBest == InitFleet /\ [][NextBest]_vars

\* the sessions of SpecSessions while the administrator takes servers out
\* of service and back
NextRejections ==
    \/ \E u \in UserIds, s \in ServerIds, p \in Protocols : connect_to_server(u, s, p)
    \/ \E u \in UserIds, c \in ConnIds, d \in ByteReports :
          disconnect(u, c, d[1], d[2])
    \/ \E s \in ServerIds, b \in BOOLEAN : update_server(s, [is_active |-> b])

SpecRejections == Init /\ [][NextRejections]_vars

\* The quota checks are run on the free account with every quota the
\* administrator can have set (update_user: none, 0, or some megabytes) and
\* lifetime totals as earlier finalized sessions have left them, in steps of
\* half a megabyte.
QuotaLimits == {NULL} \cup (0..MaxLimit)
QuotaTotals == {k * (BytesPerMb \div 2) : k \in 0..MaxHalfMb}

InitQuota ==
    /\ \E limit \in QuotaLimits, up \in QuotaTotals, down \in QuotaTotals :
          users = [u \in UserIds |->
                     IF u = "u1"
                     THEN [NewUser("user", 1) EXCEPT !.data_limit_mb = limit,
                                                      !.total_uploaded = up,
                                                      !.total_downloaded = down]
                     ELSE NewUser("premium", 2)]
    /\ servers = [s \in {"s1", "s2"} |->
                  IF s = "s1" THEN NewServer("ssh_direct", FALSE, 1)
                                ELSE NewServer("ssh_direct", TRUE, 2)]
    /\ connection_logs = <<>>
    /\ usage_stats = <<>>
    /\ nextConnId = 1
    /\ now = 0
    /\ reqs = [r \in ReqIds |-> Idle]
    /\ tokens = {}
    /\ response = Resp("none", 0, 0)

NextQuota ==
    \/ \E u \in UserIds : get_data_remaining(u)
    \/ \E u \in UserIds, s \in ServerIds, p \in Protocols : connect_to_server(u, s, p)

SpecQuota == InitQuota /\ [][NextQuota]_vars

\* The free account has a quota, is one byte short of it and has just opened
\* a session on s1; the session is finalized with every report of up to
\* MaxTotal bytes.
QuotaReports == {d \in (0..MaxTotal) \X (0..MaxTotal) : d[1] + d[2] <= MaxTotal}

InitNearQuota ==
    /\ \E limit \in 1..MaxLimit :
          users = [u \in UserIds |->
                     IF u = "u1"
                     THEN [NewUser("user", 1) EXCEPT
                             !.data_limit_mb = limit,
                             !.total_downloaded = limit * BytesPerMb - 1,
                             !.last_connection = 0]
                     ELSE NewUser("premium", 2)]
    /\ servers = [s \in {"s1", "s2"} |->
                  IF s = "s1" THEN [NewServer("ssh_direct", FALSE, 1) EXCEPT !.current_users = 1]
                                ELSE NewServer("ssh_direct", TRUE, 2)]
    /\ connection_logs = (1 :> NewConnection("u1", "s1", "ssh_direct", 0))
    /\ usage_stats = <<>>
    /\ nextConnId = 2
    /\ now = 0
    /\ reqs = [r \in ReqIds |-> Idle]
    /\ tokens = {}
    /\ response = Resp("connect", 200, 0)

NextNearQuota ==
    \/ \E u \in UserIds, c \in ConnIds, d \in QuotaReports :
          disconnect(u, c, d[1], d[2])
    \/ \E u \in UserIds : get_data_remaining(u)

SpecNearQuota == InitNearQuota /\ [][NextNearQuota]_vars

\* The two read-only quota checks are run on the free account with every
\* quota and usage of InitQuota, on the other account as a premium user or
\* an administrator with every quota and no usage yet, and on servers in and
\* out of service, free and premium.
InitAccess ==
    /\ \E limit \in QuotaLimits, up \in QuotaTotals, down \in QuotaTotals,
          role \in {"premium", "admin"}, limit2 \in QuotaLimits :
          users = [u \in UserIds |->
                     IF u = "u1"
                     THEN [NewUser("user", 1) EXCEPT !.data_limit_mb = limit,
                                                      !.total_uploaded = up,
                                                      !.total_downloaded = down]
                     ELSE [NewUser(role, 2) EXCEPT !.data_limit_mb = limit2]]
    /\ \E active, premium \in [{"s1", "s2"} -> BOOLEAN] :
          servers = [s \in {"s1", "s2"} |->
                       [NewServer("ssh_direct", premium[s], 2) EXCEPT
                           !.is_active = active[s]]]
    /\ connection_logs = <<>>
    /\ usage_stats = <<>>
    /\ nextConnId = 1
    /\ now = 0
    /\ reqs = [r \in ReqIds |-> Idle]
    /\ tokens = {}
    /\ response = Resp("none", 0, 0)

NextAccess ==
    \/ \E u \in UserIds, s \in ServerIds : get_connection_info(u, s)
    \/ \E u \in UserIds : get_data_remaining(u)

SpecAccess == InitAccess /\ [][NextAccess]_vars

\* selections among the admissions: get_best_server on the fleet as the
\* sessions leave it
NextSelectAdmit ==
    \/ \E u \in UserIds, p \in Protocols \cup {NoProtocol} : get_best_server(u, p)
    \/ \E u \in UserIds, s \in ServerIds, p \in Protocols : connect_to_server(u, s, p)

SpecSelectAdmit == Init /\ [][NextSelectAdmit]_vars

\* concurrent admissions: every connect_to_server round trip interleaves
NextAdmitRace ==
    \/ \E r \in ReqIds, u \in UserIds, s \in ServerIds, p \in Protocols :
          ConnectSelectServer(r, u, s, p)
    \/ \E r \in ReqIds : ConnectCountActive(r)
    \/ \E r \in ReqIds : ConnectFlush(r)

SpecAdmitRace == Init /\ [][NextAdmitRace]_vars

\* the states right after one account has opened its first session
InitConnected ==
    \E u \in UserIds, s \in {"s1"}, p \in Protocols :
        /\ users = [v \in UserIds |->
                      LET row == IF v = "u1" THEN NewUser("user", 1) ELSE NewUser("premium", 2)
                      IN  IF v = u THEN [row EXCEPT !.last_connection = 0] ELSE row]
        /\ servers = [x \in {"s1", "s2"} |->
                      LET row == IF x = "s1" THEN NewServer("ssh_direct", FALSE, 1)
                                              ELSE NewServer("ssh_direct", TRUE, 2)
                      IN  IF x = s THEN [row EXCEPT !.current_users = 1] ELSE row]
        /\ connection_logs = (1 :> NewConnection(u, s, p, 0))
        /\ usage_stats = <<>>
        /\ nextConnId = 2
        /\ now = 0
        /\ reqs = [r \in ReqIds |-> Idle]
        /\ tokens = {}
        /\ response = Resp("connect", 200, 0)

\* disconnect calls on the open session with every byte value a request
\* body can carry; the lifetime totals are explored down to -MaxBytes
NextSignedBytes ==
    \E u \in UserIds, c \in ConnIds, d \in SignedByteReports :
        /\ disconnect(u, c, d[1], d[2])
        /\ users'[u].total_uploaded >= -MaxBytes
        /\ users'[u].total_downloaded >= -MaxBytes

SpecSignedBytes == InitConnected /\ [][NextSignedBytes]_vars

\* the round trips of disconnect and of disconnect_user interleave on the
\* sessions that are open
NextFinalizeRace ==
    \/ \E r \in ReqIds, u \in UserIds, c \in ConnIds, d \in ByteReports :
          DisconnectSelectConnection(r, u, c, d[1], d[2])
    \/ \E r \in ReqIds : DisconnectSelectServer(r)
    \/ \E r \in ReqIds : DisconnectFlush(r)
    \/ \E r \in ReqIds, u \in UserIds : ForceSelectConnections(r, u)
    \/ \E r \in ReqIds : ForceFlush(r)

SpecFinalizeRace == InitConnected /\ [][NextFinalizeRace]_vars

\* logins and admits of the free account from two devices, each client
\* presenting its own device id or none, while the administrator locks and
\* unlocks the account and switches it off and on
NextDeviceLock ==
    \/ \E pw \in Passwords, from \in Devices :
          \E device_id \in {NoDevice, from} : login("u1", pw, from, device_id)
    \/ lock_user_device("u1")
    \/ unlock_user_device("u1")
    \/ \E b \in BOOLEAN : update_user("u1", [is_active |-> b])
    \/ \E from \in Devices, s \in ServerIds, p \in Protocols :
          connect_from("u1", from, s, p)

SpecDeviceLock == Init /\ [][NextDeviceLock]_vars

\* request bodies of the edits: the fields a client sets, among them fields
\* that the schema of the route does not declare
UserBodies ==
    {[email |-> "e1", password |-> "p1"],
     [role |-> "admin", is_active |-> FALSE, is_locked |-> TRUE, max_devices |-> 2,
      data_limit_mb |-> 1, expiry_date |-> 0,
      total_uploaded |-> MaxTotal, total_downloaded |-> MaxTotal]}

ProfileBodies ==
    {[password |-> "p1"],
     [email |-> "e2", password |-> "p1", role |-> "admin", is_active |-> FALSE,
      is_locked |-> TRUE, max_devices |-> 2, data_limit_mb |-> 0, expiry_date |-> 0,
      total_uploaded |-> MaxTotal, total_downloaded |-> MaxTotal]}

ServerBodies ==
    {[is_premium |-> TRUE, max_users |-> 2],
     [is_active |-> FALSE, current_users |-> MaxConns, current_load |-> MaxLoad]}

\* the edits of the free account and of the server s1 while one session is
\* open on s1 or has been finalized
NextEdits ==
    \/ \E u \in UserIds, c \in ConnIds, d \in ByteReports :
          disconnect(u, c, d[1], d[2])
    \/ \E pw \in Passwords, device_id \in {NoDevice, "d1"} :
          login("u1", pw, "d1", device_id)
    \/ \E raw \in ProfileBodies : update_profile("u1", raw)
    \/ \E raw \in UserBodies : update_user("u1", raw)
    \/ \E raw \in ServerBodies : update_server("s1", raw)
    \/ lock_user_device("u1")
    \/ unlock_user_device("u1")

SpecEdits == InitConnected /\ [][NextEdits]_vars

\* the sessions of SpecSessions while the administrator deletes servers
NextDeleteServer ==
    \/ \E u \in UserIds, s \in ServerIds, p \in Protocols : connect_to_server(u, s, p)
    \/ \E u \in UserIds, c \in ConnIds, d \in ByteReports :
          disconnect(u, c, d[1], d[2])
    \/ \E s \in ServerIds : delete_server(s)

SpecDeleteServer == Init /\ [][NextDeleteServer]_vars

\* the life of the sessions: the accounts that exist open and close sessions
\* (each disconnect reporting MaxBytes uploaded) while the administrator
\* force-disconnects and deletes accounts and takes s1 out of service and back
UploadReports == {d \in ByteReports : d[1] = MaxBytes}

NextLifecycle ==
    \/ \E u \in DOMAIN users, s \in ServerIds, p \in Protocols : connect_to_server(u, s, p)
    \/ \E u \in DOMAIN users, c \in ConnIds, d \in UploadReports :
          disconnect(u, c, d[1], d[2])
    \/ \E u \in DOMAIN users : disconnect_user(u)
    \/ \E u \in UserIds : delete_user(u)
    \/ \E b \in BOOLEAN : update_server("s1", [is_active |-> b])

SpecLifecycle == Init /\ [][NextLifecycle]_vars

\* the sessions of SpecSessions with a store whose commits may fail
NextStoreFailure ==
    \/ \E u \in UserIds, s \in ServerIds, p \in Protocols, commit_ok \in BOOLEAN :
          connect_with_store(u, s, p, commit_ok)
    \/ \E u \in UserIds, c \in ConnIds, d \in ByteReports, commit_ok \in BOOLEAN :
          disconnect_with_store(u, c, d[1], d[2], commit_ok)

SpecStoreFailure == Init /\ [][NextStoreFailure]_vars

\* ---------------------------------------------------------------- claims
\* the rows of connection_logs that reference server s
SessionsOn(s) == {c \in DOMAIN connection_logs : connection_logs[c].server_id = s}

AccountsOf(cs) == {connection_logs[c].user_id : c \in cs}

Totals(u) == <<users[u].total_uploaded, users[u].total_downloaded>>

\* C1: with no request in flight, after any sequence of connect_to_server and
\* disconnect calls, every server's current_users equals the number of
\* sessions in status "connected" that reference it.
C1_CounterMatchesConnected ==
    \A s \in DOMAIN servers : servers[s].current_users = ConnectedOn(s)

\* C2: a disconnect call on a session that an earlier disconnect already
\* finalized changes neither any server's current_users nor the account's
\* lifetime totals.
C2_SecondFinalizeNoEffect ==
    [][\A u \in UserIds, c \in ConnIds, d \in ByteReports :
          (/\ disconnect(u, c, d[1], d[2])
           /\ ConnectionFound(u, c)
           /\ connection_logs[c].status = "disconnected")
          => (servers' = servers /\ Totals(u)' = Totals(u))]_vars

\* C3: every server has current_users <= max_users in every state reached by
\* connect_to_server and disconnect calls (an admit against a full server
\* does not succeed).
C3_CapacityNeverExceeded ==
    \A s \in DOMAIN servers : servers[s].current_users <= servers[s].max_users

\* C4: with the round trips of concurrent admits interleaved, the number of
\* distinct accounts holding a "connected" session on a server never exceeds
\* the server's max_users (of N admits by N accounts only max_users succeed).
C4_ConcurrentAdmitsWithinCapacity ==
    \A s \in DOMAIN servers :
        Cardinality(AccountsOf({c \in SessionsOn(s) :
                                  connection_logs[c].status = "connected"}))
            <= servers[s].max_users

\* C5: when admits by different accounts against one server interleave and
\* succeed, no increment is lost: current_users equals the number of
\* sessions admitted to the server.
C5_NoLostIncrement ==
    \A s \in DOMAIN servers :
        Cardinality(AccountsOf(SessionsOn(s))) = Cardinality(SessionsOn(s))
            => servers[s].current_users = Cardinality(SessionsOn(s))

\* C6: a connect_to_server call by an account whose number of "connected"
\* sessions is >= its max_devices creates no session and is answered 403
\* (the server check comes first: it is answered 404 when the server is
\* missing or inactive); so no account ever holds more than max_devices
\* "connected" sessions.
C6_DeviceLimit ==
    /\ [](\A u \in UserIds : ActiveConnections(u) <= users[u].max_devices)
    /\ [][\A u \in UserIds, s \in ServerIds, p \in Protocols :
            (/\ connect_to_server(u, s, p)
             /\ ActiveConnections(u) >= users[u].max_devices)
            => (/\ connection_logs' = connection_logs
                /\ response'.code = IF ServerUnavailable(s) THEN 404 ELSE 403)]_vars

\* Scenario A: the account with max_devices = 1 holds one "connected" session
\* and its next admit has just been answered 403.
C6_Witness ==
    /\ response = Resp("connect", 403, 0)
    /\ users["u1"].max_devices = 1
    /\ ActiveConnections("u1") = 1
    /\ ActiveConnections("u2") < users["u2"].max_devices

\* C7: no session in status "connected" links an account whose role is
\* neither "admin" nor "premium" to a premium server.
C7_PremiumServersOnlyForPremium ==
    \A c \in DOMAIN connection_logs :
        (/\ connection_logs[c].status = "connected"
         /\ connection_logs[c].server_id \in DOMAIN servers
         /\ servers[connection_logs[c].server_id].is_premium)
        => users[connection_logs[c].user_id].role \in {"admin", "premium"}

\* C8: when disconnect and disconnect_user race on one "connected" session,
\* the one that commits second applies nothing: a commit whose handler loaded
\* the session as "connected" and finds it already disconnected by the other
\* operation leaves sessions, servers and accounts as they are.
C8_RaceLoserAppliesNothing ==
    [][\A r \in ReqIds :
          /\ (/\ DisconnectFlush(r)
              /\ reqs[r].conn.status = "connected"
              /\ connection_logs[reqs[r].conn_id].disconnect_reason = AdminReason)
             => UNCHANGED <<users, servers, connection_logs>>
          /\ (/\ ForceFlush(r)
              /\ \E c \in DOMAIN reqs[r].loaded :
                    /\ connection_logs[c].status = "disconnected"
                    /\ connection_logs[c].disconnect_reason # AdminReason)
             => UNCHANGED <<users, servers, connection_logs>>]_vars

\* C9: a disconnect_user call keeps every server's current_users equal to the
\* number of "connected" sessions referencing it.
C9_ForceDisconnectKeepsCounter ==
    [][\A u \in UserIds :
          (disconnect_user(u) /\ C1_CounterMatchesConnected)
          => C1_CounterMatchesConnected']_vars

\* C10: disconnect_user on an account with n "connected" sessions reports n,
\* leaves the account with no "connected" session, leaves the byte counters
\* of the sessions it disconnected at zero, changes no lifetime total and
\* changes no session of another account.
C10_ForceDisconnectFrame ==
    [][\A u \in UserIds :
          disconnect_user(u) =>
            /\ response'.n = ActiveConnections(u)
            /\ ActiveConnections(u)' = 0
            /\ \A c \in ConnectedOf(u) :
                  /\ connection_logs'[c].status = "disconnected"
                  /\ connection_logs'[c].bytes_uploaded = 0
                  /\ connection_logs'[c].bytes_downloaded = 0
            /\ \A v \in UserIds : Totals(v)' = Totals(v)
            /\ \A c \in DOMAIN connection_logs :
                  connection_logs[c].user_id # u
                      => connection_logs'[c] = connection_logs[c]
            /\ DOMAIN connection_logs' = DOMAIN connection_logs]_vars

\* Scenario D: disconnect_user has just reported 2 for the account that held
\* two "connected" sessions, and both are disconnected with zero bytes.
C10_Witness ==
    /\ response = Resp("disconnect_user", 200, 2)
    /\ \A c \in {1, 2} :
          /\ c \in DOMAIN connection_logs
          /\ connection_logs[c].user_id = "u2"
          /\ connection_logs[c].status = "disconnected"
          /\ connection_logs[c].disconnect_reason = AdminReason
          /\ connection_logs[c].bytes_uploaded = 0

\* C11: a disconnect call naming a session that does not exist, or one that
\* belongs to another account, is answered 404 and changes no session, no
\* server's current_users and no account's lifetime totals.
C11_UnknownSessionNotFound ==
    [][\A u \in UserIds, c \in ConnIds, d \in ByteReports :
          (/\ disconnect(u, c, d[1], d[2])
           /\ (c \notin DOMAIN connection_logs \/ connection_logs[c].user_id # u))
          => (/\ response' = Resp("disconnect", 404, 0)
              /\ UNCHANGED <<connection_logs, servers, users>>)]_vars

\* a disconnect has just been answered 404 while the only session, which
\* belongs to u2, is still "connected" and counted by its server, and no
\* lifetime total has moved
C11_Witness ==
    /\ response = Resp("disconnect", 404, 0)
    /\ DOMAIN connection_logs = {1}
    /\ connection_logs[1].user_id = "u2"
    /\ connection_logs[1].status = "connected"
    /\ servers[connection_logs[1].server_id].current_users = 1
    /\ \A u \in UserIds : Totals(u) = <<0, 0>>

\* C12: once a session is "disconnected", its bytes_uploaded,
\* bytes_downloaded, disconnected_at and duration_seconds never change again,
\* whatever disconnect or disconnect_user calls follow.
C12_FinalizedFieldsImmutable ==
    [][\A c \in DOMAIN connection_logs :
          connection_logs[c].status = "disconnected" =>
            /\ connection_logs'[c].bytes_uploaded = connection_logs[c].bytes_uploaded
            /\ connection_logs'[c].bytes_downloaded = connection_logs[c].bytes_downloaded
            /\ connection_logs'[c].disconnected_at = connection_logs[c].disconnected_at
            /\ connection_logs'[c].duration_seconds = connection_logs[c].duration_seconds]_vars

\* C13: a session is created in status "connected", no session is ever
\* removed by these operations, and a session whose status is not
\* "connected" never becomes "connected" again.
C13_StatusOnlyForward ==
    [][/\ \A c \in DOMAIN connection_logs :
            /\ c \in DOMAIN connection_logs'
            /\ connection_logs[c].status # "connected"
                  => connection_logs'[c].status # "connected"
       /\ \A c \in DOMAIN connection_logs' \ DOMAIN connection_logs :
            connection_logs'[c].status = "connected"]_vars

\* a session that disconnect_user closed has since been finalized again by
\* its owner's disconnect (which recorded a byte) and is still "disconnected"
C13_Witness ==
    \E c \in DOMAIN connection_logs :
        /\ connection_logs[c].status = "disconnected"
        /\ connection_logs[c].disconnect_reason = AdminReason
        /\ connection_logs[c].bytes_uploaded = 1

\* C14: no account's total_uploaded or total_downloaded ever decreases,
\* whatever byte values the disconnect requests carry.
C14_TotalsNeverDecrease ==
    [][\A u \in UserIds :
          /\ users'[u].total_uploaded >= users[u].total_uploaded
          /\ users'[u].total_downloaded >= users[u].total_downloaded]_vars

\* the usage records of account u
UsageRowsOf(u) == {i \in DOMAIN usage_stats : usage_stats[i].user_id = u}

\* C15: every finalized session has been counted once in the account's
\* usage records: for each account the sum of connection_count over its
\* usage records equals the number of its "disconnected" sessions.
C15_UsageCountsFinalizedSessions ==
    \A u \in UserIds :
        OrZero(SqlSum(UsageRowsOf(u), "connection_count"))
            = Cardinality({c \in DOMAIN connection_logs :
                              /\ connection_logs[c].user_id = u
                              /\ connection_logs[c].status = "disconnected"})

\* the column sums of the rows a get_daily_usage response lists
RECURSIVE DailyTotals(_)
DailyTotals(rows) ==
    IF rows = <<>> THEN <<0, 0, 0, 0>>
    ELSE LET r == Head(rows)
             t == DailyTotals(Tail(rows))
         IN  <<r.bytes_uploaded + t[1], r.bytes_downloaded + t[2],
               r.connection_count + t[3], r.connection_time_seconds + t[4]>>

SummaryTotals(resp) ==
    <<resp.total_uploaded, resp.total_downloaded,
      resp.total_connections, resp.total_time_seconds>>

\* C16: for one account and one `days` range, asked one after the other on
\* the same table, the totals of get_usage_summary equal the column sums of
\* the rows get_daily_usage returns; with no row in range the rows are empty
\* and the totals are all 0.
C16_SummaryEqualsDailySums ==
    [][\A u \in UserIds, days \in UsageDays :
          /\ (/\ get_usage_summary(u, days)
              /\ response.op = "usage_daily"
              /\ response.user = u /\ response.days = days)
             => SummaryTotals(response') = DailyTotals(response.rows)
          /\ (/\ get_daily_usage(u, days)
              /\ response.op = "usage"
              /\ response.user = u /\ response.days = days)
             => DailyTotals(response'.rows) = SummaryTotals(response)]_vars

\* a summary over the last day has just been returned for an account that
\* has one record in range (with a byte uploaded) and one older record
C16_Witness ==
    /\ response.op = "usage"
    /\ response.days = 1
    /\ response.total_connections = 1
    /\ response.total_uploaded = 1
    /\ Cardinality(UsageRowsOf(response.user)) = 2
    /\ \E i \in UsageRowsOf(response.user) : usage_stats[i].date < StartDate(1)

C18_BestServerIsEligible ==
    [][\A u \in UserIds, p \in FleetProtocols \cup {NoProtocol} :
          get_best_server(u, p) =>
            LET passes(s) ==
                    /\ servers[s].is_active
                    /\ ~(servers[s].current_users >= servers[s].max_users)
                    /\ ~(servers[s].is_premium /\ users[u].role \notin {"admin", "premium"})
                    /\ ~(p # NoProtocol /\ servers[s].protocol # p)
            IN  /\ response'.code \in {200, 404}
                /\ response'.code = 200 =>
                      response'.server \in DOMAIN servers /\ passes(response'.server)
                /\ response'.code = 404 <=> ~\E s \in DOMAIN servers : passes(s)]_vars

\* Scenario B: the free account has just been given s2 while s1, active,
\* free and of the same protocol, is full
C18_Witness ==
    /\ response = BestResp("u1", NoProtocol, 200, "s2")
    /\ servers["s1"].is_active /\ ~servers["s1"].is_premium
    /\ servers["s1"].current_users = servers["s1"].max_users
    /\ servers["s1"].current_load < servers["s2"].current_load

\* C19: the server get_best_server returns has the minimum current_load among
\* the eligible servers, and among the eligible servers of that load the
\* minimum latency_ms (a server without a latency is returned only when no
\* eligible server of that load has one).
C19_BestServerIsMinimal ==
    [][\A u \in UserIds, p \in FleetProtocols \cup {NoProtocol} :
          (get_best_server(u, p) /\ response'.code = 200) =>
            LET best == servers[response'.server]
            IN  \A x \in DOMAIN servers :
                  Eligible(x, users[u].role, p) =>
                    /\ best.current_load <= servers[x].current_load
                    /\ (/\ servers[x].current_load = best.current_load
                        /\ servers[x].latency_ms # NULL)
                       => (/\ best.latency_ms # NULL
                           /\ best.latency_ms <= servers[x].latency_ms)]_vars

\* s2 has just been returned on its lower latency: both servers are eligible
\* for the caller and equally loaded
C19_Witness ==
    /\ response.op = "best" /\ response.code = 200 /\ response.server = "s2"
    /\ Eligible("s1", users[response.user].role, response.protocol)
    /\ servers["s1"].current_load = servers["s2"].current_load
    /\ servers["s1"].latency_ms # NULL
    /\ servers["s2"].latency_ms # NULL
    /\ servers["s2"].latency_ms < servers["s1"].latency_ms

\* C20: two get_best_server calls with the same caller and the same protocol
\* filter on the same fleet return the same server, also when eligible
\* servers are equal in current_load and in latency_ms (or have none).
C20_BestServerDeterministic ==
    [][\A u \in UserIds, p \in FleetProtocols \cup {NoProtocol} :
          (/\ get_best_server(u, p)
           /\ response.op = "best"
           /\ response.user = u /\ response.protocol = p)
          => response'.server = response.server]_vars

\* C21: get_best_server is read-only: it changes no server row (current_users,
\* current_load), no session and no account, so the slot it saw free is not
\* reserved for the caller.
C21_BestServerReadOnly ==
    [][\A u \in UserIds, p \in Protocols \cup {NoProtocol} :
          get_best_server(u, p) =>
            /\ servers' = servers
            /\ connection_logs' = connection_logs
            /\ users' = users
            /\ nextConnId' = nextConnId]_vars

\* s2 has just been returned to the premium account while another session
\* is open on it: its last slot is still free for anyone's admit
C21_Witness ==
    /\ response = BestResp("u2", NoProtocol, 200, "s2")
    /\ servers["s2"].current_users = servers["s2"].max_users - 1
    /\ ConnectedOn("s2") = 1

\* C22: a connect_to_server or disconnect call that is answered with an error
\* leaves every table as it was: no session created or modified, no server
\* counter, no last_connection and no lifetime total changed.  (Every step
\* records the handler that ran and its status code in `response`.)
C22_RejectionChangesNothing ==
    [][(/\ response'.op \in {"connect", "disconnect"}
        /\ response'.code # 200)
       => UNCHANGED <<users, servers, connection_logs, usage_stats>>]_vars

\* the premium account, with both its devices connected and a lifetime
\* total already recorded, has just had an admit refused
C22_Witness ==
    /\ response = Resp("connect", 403, 0)
    /\ ActiveConnections("u2") = 2
    /\ ActiveConnections("u1") = 0
    /\ \E s \in DOMAIN servers : ~servers[s].is_active

\* C23: the server check comes first: a connect_to_server call naming a
\* missing or inactive server is answered 404 even when the account has
\* reached its device limit.
C23_ServerCheckFirst ==
    [][\A u \in UserIds, s \in ServerIds, p \in Protocols :
          (/\ (s \notin DOMAIN servers \/ ~servers[s].is_active)
           /\ ActiveConnections(u) >= users[u].max_devices
           /\ connect_to_server(u, s, p))
          => response' = Resp("connect", 404, 0)]_vars

\* an admit has just been answered 404 while the free account is at its
\* device limit, its session being on the server now out of service
C23_Witness ==
    /\ response = Resp("connect", 404, 0)
    /\ ActiveConnections("u1") >= users["u1"].max_devices
    /\ ActiveConnections("u2") = 0
    /\ ~servers["s1"].is_active
    /\ ConnectedOn("s1") = 1

\* C24: a connect_to_server call by an account that has a data quota and
\* whose lifetime usage (uploaded + downloaded) is at or above it is answered
\* 403 and creates no session (the server being there and active).
C24_QuotaCheckedAtAdmit ==
    [][\A u \in UserIds, s \in ServerIds, p \in Protocols :
          (/\ users[u].data_limit_mb # NULL
           /\ users[u].total_uploaded + users[u].total_downloaded
                 >= users[u].data_limit_mb * BytesPerMb
           /\ s \in DOMAIN servers /\ servers[s].is_active
           /\ connect_to_server(u, s, p))
          => (/\ response'.code = 403
              /\ connection_logs' = connection_logs)]_vars

\* C25: for an account with a data quota, get_data_remaining reports
\* used = lifetime uploaded + lifetime downloaded and
\* remaining = max(0, limit - used): never negative, and 0 whenever
\* used >= limit.
C25_RemainingIsFlooredDifference ==
    [][\A u \in UserIds :
          (users[u].data_limit_mb # NULL /\ get_data_remaining(u)) =>
            LET used  == users[u].total_uploaded + users[u].total_downloaded
                limit == users[u].data_limit_mb * BytesPerMb
            IN  /\ response'.used = used
                /\ response'.remaining = (IF used >= limit THEN 0 ELSE limit - used)
                /\ response'.remaining >= 0]_vars

\* C26: on an account that is locked and has a bound device id, a login
\* presenting a different device id is rejected, hands out no token and
\* changes neither the bound device id nor last_login; a login with the
\* right password on the active account that presents no device id is
\* accepted.
C26_LockedLoginOtherDevice ==
    [][\A pw \in Passwords, from \in Devices, d \in Devices \cup {NoDevice} :
          (/\ users["u1"].is_locked
           /\ users["u1"].device_id # NoDevice
           /\ login("u1", pw, from, d))
          => /\ (d # NoDevice /\ d # users["u1"].device_id)
                  => /\ response'.code # 200
                     /\ users'["u1"].device_id = users["u1"].device_id
                     /\ users'["u1"].last_login = users["u1"].last_login
                     /\ tokens' = tokens
             /\ (/\ d = NoDevice
                 /\ Hash(pw) = users["u1"].password_hash
                 /\ users["u1"].is_active)
                  => /\ response'.code = 200
                     /\ <<"u1", from>> \in tokens']_vars

\* the active account, locked to d1, has just refused a login: d1 is still
\* bound, and the last accepted login dates from before the refusal
C26_Witness ==
    /\ response = Resp("login", 403, 0)
    /\ users["u1"].is_active
    /\ users["u1"].is_locked
    /\ users["u1"].device_id = "d1"
    /\ users["u1"].last_login = 0
    /\ now = 1
    /\ tokens = {<<"u1", "d1">>}

\* C27: while an account stays locked with a bound device id, no login and
\* no connect changes the bound device id, and every admit of the account
\* that succeeds is made from the bound device.
C27_LockedAdmitsFromBoundDevice ==
    /\ [][(/\ users["u1"].is_locked
           /\ users["u1"].device_id # NoDevice
           /\ users'["u1"].is_locked)
          => users'["u1"].device_id = users["u1"].device_id]_vars
    /\ [][\A from \in Devices, s \in ServerIds, p \in Protocols :
            (/\ users["u1"].is_locked
             /\ users["u1"].device_id # NoDevice
             /\ connect_from("u1", from, s, p)
             /\ response'.code = 200)
            => from = users["u1"].device_id]_vars

\* C28: login, update_profile, update_user, update_server, lock_user_device
\* and unlock_user_device change no server's current_users or current_load and
\* no account's lifetime totals, whatever fields the request body carries.
\* (Every step records the handler that ran in `response`.)
C28_EditsLeaveCountersAlone ==
    [][response'.op \in {"login", "update_profile", "update_user", "update_server",
                         "lock", "unlock"}
       => /\ DOMAIN servers' = DOMAIN servers
          /\ \A s \in DOMAIN servers :
                /\ servers'[s].current_users = servers[s].current_users
                /\ servers'[s].current_load = servers[s].current_load
          /\ \A u \in UserIds : Totals(u)' = Totals(u)]_vars

\* s1 has just been taken out of service by the body that also carried
\* current_users and current_load, after the account, whose finalized session
\* left it one byte, was edited by the body that also carried the totals
C28_Witness ==
    /\ response = Resp("update_server", 200, 0)
    /\ ~servers["s1"].is_active
    /\ servers["s1"].current_users = 0
    /\ servers["s1"].current_load = 0
    /\ users["u1"].role = "admin"
    /\ Totals("u1") = <<1, 0>>

\* C29: whatever fields the body of update_profile carries, the account's
\* role, is_active, is_locked, max_devices, data_limit_mb, expiry_date (and
\* lifetime totals) are the same afterwards, and no other account changes.
C29_ProfileEditsEmailAndPasswordOnly ==
    [][\A raw \in ProfileBodies :
          update_profile("u1", raw) =>
            /\ \A f \in {"role", "is_active", "is_locked", "max_devices",
                          "data_limit_mb", "expiry_date",
                          "total_uploaded", "total_downloaded"} :
                  users'["u1"][f] = users["u1"][f]
            /\ users'["u2"] = users["u2"]]_vars

\* the body that carried every field has just been applied: email and
\* password are the new ones, the other fields as at creation
C29_Witness ==
    /\ response = Resp("update_profile", 200, 0)
    /\ users["u1"].email = "e2"
    /\ users["u1"].password_hash = Hash("p1")
    /\ users["u1"].role = "user"
    /\ users["u1"].is_active /\ ~users["u1"].is_locked
    /\ users["u1"].max_devices = 1
    /\ users["u1"].data_limit_mb = NULL /\ users["u1"].expiry_date = NULL

\* C30: delete_server removes no session: the sessions that referenced the
\* server stay, with server_id NULL and every other column as it was, and
\* the other sessions are untouched; a later disconnect of such a session is
\* answered 200, adds the reported bytes to the account's lifetime totals
\* and changes no server's current_users.
C30_ServerDeleteKeepsSessions ==
    /\ [][\A s \in ServerIds :
            (s \in DOMAIN servers /\ delete_server(s)) =>
              /\ DOMAIN connection_logs' = DOMAIN connection_logs
              /\ \A c \in DOMAIN connection_logs :
                    connection_logs'[c] =
                       IF connection_logs[c].server_id = s
                       THEN [connection_logs[c] EXCEPT !.server_id = NoServer]
                       ELSE connection_logs[c]]_vars
    /\ [][\A u \in UserIds, c \in ConnIds, d \in ByteReports :
            (/\ c \in DOMAIN connection_logs
             /\ connection_logs[c].user_id = u
             /\ connection_logs[c].server_id = NoServer
             /\ disconnect(u, c, d[1], d[2]))
            => /\ response' = Resp("disconnect", 200, 0)
               /\ connection_logs'[c].status = "disconnected"
               /\ Totals(u)' = <<Totals(u)[1] + d[1], Totals(u)[2] + d[2]>>
               /\ DOMAIN servers' = DOMAIN servers
               /\ \A s \in DOMAIN servers :
                     servers'[s].current_users = servers[s].current_users]_vars

\* the session that was open on the deleted s1 has just been finalized with
\* one byte, which its account's total shows, while s2 still counts the
\* session open on it
C30_Witness ==
    /\ response = Resp("disconnect", 200, 0)
    /\ "s1" \notin DOMAIN servers
    /\ 1 \in DOMAIN connection_logs
    /\ connection_logs[1].server_id = NoServer
    /\ connection_logs[1].status = "disconnected"
    /\ connection_logs[1].bytes_uploaded = 1
    /\ Totals(connection_logs[1].user_id) = <<1, 0>>
    /\ "s2" \in DOMAIN servers
    /\ servers["s2"].current_users = 1
    /\ ConnectedOn("s2") = 1

\* C31: a session in status "connected" is still there and still "connected"
\* after every step that is not a disconnect by its owner, a disconnect_user
\* of its owner or a delete_user of its owner: the passing of time, the
\* operations of other accounts and update_server leave it "connected".
C31_ConnectedUntilClosed ==
    [][\A c \in DOMAIN connection_logs :
          (/\ connection_logs[c].status = "connected"
           /\ (c \notin DOMAIN connection_logs' \/ connection_logs'[c].status # "connected"))
          => LET u == connection_logs[c].user_id
             IN  \/ \E d \in UploadReports : disconnect(u, c, d[1], d[2])
                 \/ disconnect_user(u)
                 \/ delete_user(u)]_vars

\* the session the free account opened on s1 at time 0 is still "connected"
\* at time 1, after s1 was taken out of service and the other account, which
\* had opened a session too, was deleted
C31_Witness ==
    /\ response = Resp("delete_user", 200, 0)
    /\ "u2" \notin DOMAIN users
    /\ nextConnId = 3
    /\ DOMAIN connection_logs = {1}
    /\ connection_logs[1].user_id = "u1"
    /\ connection_logs[1].server_id = "s1"
    /\ connection_logs[1].status = "connected"
    /\ connection_logs[1].connected_at = 0
    /\ now = 1
    /\ ~servers["s1"].is_active

\* C32: when the commit of a connect_to_server or of a disconnect fails, no
\* table changes; and what a step commits it commits whole: a server's
\* current_users goes up by one exactly when a session referencing it is
\* inserted, and a session goes from "connected" to "disconnected" only
\* together with the update of its account's totals and the decrement
\* (floored at 0) of its server's counter.
C32_CommitIsAllOrNothing ==
    [][/\ response'.code = 500 => UNCHANGED db
       /\ \A s \in DOMAIN servers :
             servers'[s].current_users = servers[s].current_users + 1
                <=> \E c \in DOMAIN connection_logs' \ DOMAIN connection_logs :
                       connection_logs'[c].server_id = s
       /\ \A c \in DOMAIN connection_logs :
             (/\ connection_logs[c].status = "connected"
              /\ connection_logs'[c].status = "disconnected")
             => LET u == connection_logs[c].user_id
                    s == connection_logs[c].server_id
                IN  /\ Totals(u)' = <<Totals(u)[1] + connection_logs'[c].bytes_uploaded,
                                      Totals(u)[2] + connection_logs'[c].bytes_downloaded>>
                    /\ servers'[s].current_users = Max(0, servers[s].current_users - 1)]_vars

\* the commit of a disconnect has just failed at time 1: the session is
\* still "connected" and counted, and no total has moved
C32_Witness ==
    /\ response = Resp("disconnect", 500, 0)
    /\ now = 1
    /\ DOMAIN connection_logs = {1}
    /\ connection_logs[1].status = "connected"
    /\ connection_logs[1].disconnected_at = NULL
    /\ servers[connection_logs[1].server_id].current_users = 1
    /\ \A u \in UserIds : Totals(u) = <<0, 0>>

\* C33: a connect_to_server call answered 200 inserts exactly one session,
\* "connected", owned by the caller and referencing the server named; it
\* raises that server's current_users by exactly 1 and leaves every other
\* server row, every other session and every account's lifetime totals
\* unchanged.
C33_AdmitFrame ==
    [][\A u \in UserIds, s \in ServerIds, p \in Protocols :
          (/\ response'.op = "connect" /\ response'.code = 200
           /\ connect_to_server(u, s, p))
          => LET new == DOMAIN connection_logs' \ DOMAIN connection_logs
             IN  /\ Cardinality(new) = 1
                 /\ \A c \in new :
                       /\ connection_logs'[c].user_id = u
                       /\ connection_logs'[c].server_id = s
                       /\ connection_logs'[c].status = "connected"
                 /\ servers'[s].current_users = servers[s].current_users + 1
                 /\ DOMAIN servers' = DOMAIN servers
                 /\ \A x \in DOMAIN servers \ {s} : servers'[x] = servers[x]
                 /\ \A c \in DOMAIN connection_logs :
                       connection_logs'[c] = connection_logs[c]
                 /\ \A v \in UserIds : Totals(v)' = Totals(v)]_vars

\* the premium account has just been admitted to s2, after the free account
\* finalized its session on s1 with one byte
C33_Witness ==
    /\ response = Resp("connect", 200, 0)
    /\ DOMAIN connection_logs = {1, 2}
    /\ connection_logs[1].user_id = "u1"
    /\ connection_logs[1].server_id = "s1"
    /\ connection_logs[1].status = "disconnected"
    /\ connection_logs[2].user_id = "u2"
    /\ connection_logs[2].server_id = "s2"
    /\ connection_logs[2].status = "connected"
    /\ servers["s1"].current_users = 0
    /\ servers["s2"].current_users = 1
    /\ Totals("u1") = <<1, 0>>
    /\ Totals("u2") = <<0, 0>>

\* C34: no server's current_users is ever negative; and a disconnect of a
\* "connected" session by its owner lowers the current_users of the server
\* the session references by exactly 1, or leaves it at 0 when it is 0
\* already, and changes no other server's counter.
C34_DecrementFlooredAtZero ==
    /\ [](\A s \in DOMAIN servers : servers[s].current_users >= 0)
    /\ [][\A u \in UserIds, c \in ConnIds, d \in ByteReports :
            (/\ c \in DOMAIN connection_logs
             /\ connection_logs[c].user_id = u
             /\ connection_logs[c].status = "connected"
             /\ connection_logs[c].server_id \in DOMAIN servers
             /\ disconnect(u, c, d[1], d[2]))
            => LET s == connection_logs[c].server_id
               IN  /\ servers'[s].current_users =
                         (IF servers[s].current_users = 0 THEN 0
                          ELSE servers[s].current_users - 1)
                   /\ \A x \in DOMAIN servers \ {s} :
                         servers'[x].current_users = servers[x].current_users]_vars

\* of the two sessions open on s2 the first has just been finalized: s2
\* counts one user
C34_Witness ==
    /\ response = Resp("disconnect", 200, 0)
    /\ DOMAIN connection_logs = {1, 2}
    /\ connection_logs[1].server_id = "s2"
    /\ connection_logs[1].status = "disconnected"
    /\ connection_logs[1].disconnect_reason = NoReason
    /\ connection_logs[2].server_id = "s2"
    /\ connection_logs[2].status = "connected"
    /\ servers["s2"].current_users = 1
    /\ \A u \in UserIds : Totals(u)[1] + Totals(u)[2] <= 1

\* C35: a disconnect of a "connected" session by its owner is answered 200
\* and adds the reported bytes to the lifetime totals whatever the account's
\* quota: also when the report takes the usage to the quota or above it.
C35_FinalizeIgnoresQuota ==
    [][\A u \in UserIds, c \in ConnIds, d \in QuotaReports :
          (/\ c \in DOMAIN connection_logs
           /\ connection_logs[c].user_id = u
           /\ connection_logs[c].status = "connected"
           /\ users[u].data_limit_mb # NULL
           /\ disconnect(u, c, d[1], d[2]))
          => /\ response' = Resp("disconnect", 200, 0)
             /\ connection_logs'[c].status = "disconnected"
             /\ Totals(u)' = <<Totals(u)[1] + d[1], Totals(u)[2] + d[2]>>]_vars

\* the session opened one byte under the quota of 1 MB has just been
\* finalized with two bytes: the lifetime usage is one byte above the quota
C35_Witness ==
    /\ response = Resp("disconnect", 200, 0)
    /\ users["u1"].data_limit_mb = 1
    /\ connection_logs[1].status = "disconnected"
    /\ connection_logs[1].bytes_uploaded = 2
    /\ users["u1"].total_uploaded = 2
    /\ users["u1"].total_uploaded + users["u1"].total_downloaded = BytesPerMb + 1

\* C36: an account whose data_limit_mb is not NULL, the value 0 included, is
\* reported by get_data_remaining with has_limit = TRUE, and is refused by
\* get_connection_info, with no credentials, once its lifetime usage is at or
\* above the quota.
C36_OnlyNullIsUnlimited ==
    /\ [][\A u \in UserIds :
            (users[u].data_limit_mb # NULL /\ get_data_remaining(u))
            => response'.has_limit]_vars
    /\ [][\A u \in UserIds, s \in ServerIds :
            (/\ users[u].data_limit_mb # NULL
             /\ users[u].total_uploaded + users[u].total_downloaded
                   >= users[u].data_limit_mb * BytesPerMb
             /\ get_connection_info(u, s))
            => (response'.code # 200 /\ response'.credentials = NoServer)]_vars

\* C40: get_connection_info answers 200 with the server's credentials
\* exactly when the server exists and is active, the caller's role is
\* "admin" or "premium" if the server is premium, and the caller is not at
\* or over a data quota that is set (not NULL); in every other case it
\* answers an error and returns no credentials.
C40_CredentialsOnlyWhenEntitled ==
    [][\A u \in UserIds, s \in ServerIds :
          get_connection_info(u, s) =>
            LET entitled ==
                  /\ s \in DOMAIN servers
                  /\ servers[s].is_active
                  /\ (servers[s].is_premium => users[u].role \in {"admin", "premium"})
                  /\ ~(/\ users[u].data_limit_mb # NULL
                       /\ users[u].total_uploaded + users[u].total_downloaded
                             >= users[u].data_limit_mb * BytesPerMb)
            IN  /\ entitled => (response'.code = 200 /\ response'.credentials = s)
                /\ ~entitled => (response'.code \in {403, 404}
                                  /\ response'.credentials = NoServer)]_vars

\* the sum of a byte column over the sessions cs
RECURSIVE SessionSum(_, _)
SessionSum(cs, column) ==
    IF cs = {} THEN 0
    ELSE LET c == CHOOSE c \in cs : TRUE
         IN  connection_logs[c][column] + SessionSum(cs \ {c}, column)

SessionsOf(u) == {c \in DOMAIN connection_logs : connection_logs[c].user_id = u}

\* C37: after any sequence of connect_to_server, disconnect and
\* disconnect_user calls, each account's total_uploaded equals the sum of
\* bytes_uploaded over its sessions, and its total_downloaded the sum of
\* bytes_downloaded.
C37_TotalsEqualSessionSums ==
    \A u \in UserIds :
        /\ users[u].total_uploaded = SessionSum(SessionsOf(u), "bytes_uploaded")
        /\ users[u].total_downloaded = SessionSum(SessionsOf(u), "bytes_downloaded")

\* C38: with the round trips of concurrent connect_to_server requests
\* interleaved (count the "connected" sessions, insert, commit), no account
\* ever holds more than max_devices sessions in status "connected".
C38_ConcurrentAdmitsWithinDeviceLimit ==
    \A u \in UserIds : ActiveConnections(u) <= users[u].max_devices

\* C39: a delete_user of an account that holds "connected" sessions, made
\* when every server's current_users equals the number of "connected"
\* sessions referencing it, removes the account's sessions and leaves every
\* server's current_users equal to the number of "connected" sessions that
\* still reference it.
C39_DeleteUserKeepsCounter ==
    [][\A u \in UserIds :
          (/\ u \in DOMAIN users
           /\ ActiveConnections(u) > 0
           /\ \A s \in DOMAIN servers : servers[s].current_users = ConnectedOn(s)
           /\ delete_user(u))
          => /\ \A c \in DOMAIN connection_logs' : connection_logs'[c].user_id # u
             /\ \A s \in DOMAIN servers' : servers'[s].current_users = ConnectedOn(s)']_vars
====
